---- MODULE Spec2Model ----
(***************************************************************************)
(* Syrah: a single-writer, many-reader random-access container of named    *)
(* arrays.  The model follows syrah/_hl/files.py (File), metadata.py        *)
(* (MetadataWriter, MetadataReader, MpNdArray), serialization.py and       *)
(* config.py.  A file on disk is a sequence of byte cells; every File       *)
(* object owns an operating-system file description with its own position. *)
(***************************************************************************)
EXTENDS Integers, Sequences, FiniteSets, TLC

VARIABLES
  disk,   \* the file at the dataset path: [exists, bytes]
  fds,    \* open file descriptions made by the builtin open(): seq of [pos, closed, mode]
  F,      \* the File objects: handle id -> fields of File
  pc,     \* per handle: the get_array call in progress between its seek and its read
  last,   \* per handle: the outcome of the last completed call
  log     \* the add_item calls made so far on the write handle: seq of [data, err]

vars == <<disk, fds, F, pc, last, log>>

----------------------------------------------------------------------------
(* Bounds of the model *)

\* add_item calls made on the write handle
MaxCalls == 3
\* read handles opened side by side on the written file
NumReaders == 2
\* file objects opened in all, by constructors and by open() on a handle that exists
MaxOpens == 3
\* add_item calls made on the write handle where handles are re-opened and scoped
MaxLifeCalls == 2
\* entries of the longest column of a trailer found on disk
MaxColumn == 2
\* elements of the longest array handed to the codec on its own
MaxElems == 2

----------------------------------------------------------------------------
(* config.py and version.py *)

MAGIC_BYTES == <<71, 83>>
NUM_BYTES_VERSION == 4
NUM_BYTES_METADATA_OFFSET == 8
NUM_BYTES_METADATA_LENGTH == 8
NUM_BYTES_MAGIC_BYTES == Len(MAGIC_BYTES)
version == <<0, 3, 0>>

\* Python's None where an integer field is expected
None == -1

----------------------------------------------------------------------------
(* Sequences of bytes *)

RECURSIVE Flatten(_)
Flatten(ss) == IF ss = <<>> THEN <<>> ELSE Head(ss) \o Flatten(Tail(ss))

Range(s) == {s[x] : x \in DOMAIN s}

\* numpy: np.array([v], dtype=<w-byte signed integer>).tobytes(): two's complement,
\* little-endian
RECURSIVE IntToBytes(_, _)
IntToBytes(v, w) == IF w = 0 THEN <<>> ELSE <<v % 256>> \o IntToBytes(v \div 256, w - 1)

\* numpy: np.frombuffer(b, dtype=<w-byte signed integer>)[0]
RECURSIVE BytesToInt(_, _)
BytesToInt(b, w) ==
  IF w = 1 THEN (IF b[1] >= 128 THEN b[1] - 256 ELSE b[1])
  ELSE BytesToInt(Tail(b), w - 1) * 256 + b[1]

IntsToBytes(vs, w) == Flatten([x \in DOMAIN vs |-> IntToBytes(vs[x], w)])

BytesToInts(b, w) ==
  [x \in 1..(Len(b) \div w) |-> BytesToInt(SubSeq(b, (x - 1) * w + 1, x * w), w)]

\* str.encode('utf-8') of one code point (below U+0800)
Utf8Char(cp) == IF cp < 128 THEN <<cp>> ELSE <<192 + (cp \div 64), 128 + (cp % 64)>>

Utf8Encode(cps) == Flatten([x \in DOMAIN cps |-> Utf8Char(cps[x])])

\* bytes.decode('utf-8'): the code points, or <<-1>> on a malformed sequence
RECURSIVE Utf8Decode(_)
Utf8Decode(b) ==
  IF b = <<>> THEN <<>>
  ELSE IF b[1] < 128
       THEN LET r == Utf8Decode(Tail(b))
            IN  IF r = <<-1>> THEN r ELSE <<b[1]>> \o r
       ELSE IF b[1] >= 194 /\ b[1] < 224 /\ Len(b) >= 2 /\ b[2] >= 128 /\ b[2] < 192
            THEN LET r == Utf8Decode(Tail(Tail(b)))
                 IN  IF r = <<-1>> THEN r ELSE <<(b[1] - 192) * 64 + (b[2] - 128)>> \o r
            ELSE <<-1>>

----------------------------------------------------------------------------
(* serialization.py *)

\* Supported types by index (the numpy type number of the element type)
dtypes ==
  (0 :> "bool") @@ (1 :> "int8") @@ (2 :> "uint8") @@ (3 :> "int16") @@ (4 :> "uint16") @@
  (5 :> "int32") @@ (6 :> "uint32") @@ (7 :> "int64") @@ (8 :> "uint64") @@
  (23 :> "float16") @@ (11 :> "float32") @@ (12 :> "float64") @@ (13 :> "float128") @@
  (19 :> "str")

\* Supported types by name: deserialize_array tests membership of a tag in its
\* keys.  The comprehension of line 50 iterates dtypes itself, not its items, and
\* raises where it is evaluated; the read path is modelled with the table both of
\* its users expect, the names of dtypes as keys.
dtype_names == {dtypes[n] : n \in DOMAIN dtypes}

\* numpy: dtype.num of the element types the model's arrays use
dtype_num ==
  ("int8" :> 1) @@ ("int16" :> 3) @@ ("unicode" :> 19) @@ ("complex64" :> 14)

\* numpy: dtype(name).itemsize of the tags the model's files hold
itemsize == ("int8" :> 1) @@ ("int16" :> 2)

\* A numpy array: element type, shape, elements (code points for a text array,
\* whose elements have the lengths slen).  pytype tells an ndarray from another value.
NdArray(dt, elems) ==
  [pytype |-> "ndarray", dtype |-> dt, shape |-> <<Len(elems)>>, data |-> elems, slen |-> <<>>]

StrArray(strings) ==
  [pytype |-> "ndarray", dtype |-> "unicode", shape |-> <<Len(strings)>>,
   data |-> Flatten(strings), slen |-> [x \in DOMAIN strings |-> Len(strings[x])]]

NotAnArray == [pytype |-> "list", dtype |-> "", shape |-> <<>>, data |-> <<>>, slen |-> <<>>]

NoArray == [pytype |-> "", dtype |-> "", shape |-> <<>>, data |-> <<>>, slen |-> <<>>]

\* format_dtype: the tag of an element type, or TypeError
format_dtype(dt) ==
  IF dtype_num[dt] \notin DOMAIN dtypes
  THEN [err |-> "UnsupportedTypeError", tag |-> ""]
  ELSE [err |-> "", tag |-> dtypes[dtype_num[dt]]]

\* ndarray.tobytes() of a numeric array
ndarray_tobytes(array) == IntsToBytes(array.data, itemsize[dtypes[dtype_num[array.dtype]]])

\* serialize_array: (payload bytes, tag), or the error of format_dtype
serialize_array(array) ==
  LET t == format_dtype(array.dtype)
  IN  IF t.err # "" THEN [err |-> t.err, bytes |-> <<>>, tag |-> ""]
      ELSE IF t.tag = "str"
           THEN [err |-> "", bytes |-> Utf8Encode(array.data), tag |-> t.tag]
           ELSE [err |-> "", bytes |-> ndarray_tobytes(array), tag |-> t.tag]

\* deserialize_array reading every numeric payload as one-byte integers
deserialize_array_as_int8(array_serialized, data_type) ==
  IF data_type \notin dtype_names
  THEN [err |-> "UnsupportedTypeError", array |-> NoArray]
  ELSE IF data_type = "str"
       THEN LET string == Utf8Decode(array_serialized)
            IN  IF string = <<-1>>
                THEN [err |-> "UnicodeDecodeError", array |-> NoArray]
                ELSE [err |-> "", array |-> StrArray(<<string>>)]
       ELSE [err |-> "", array |-> NdArray("int8", BytesToInts(array_serialized, 1))]

\* deserialize_array: the array of the tagged type held by the bytes
deserialize_array(array_serialized, data_type) ==
  IF data_type \notin dtype_names
  THEN [err |-> "UnsupportedTypeError", array |-> NoArray]
  ELSE IF data_type = "str"
       THEN LET string == Utf8Decode(array_serialized)
            IN  IF string = <<-1>>
                THEN [err |-> "UnicodeDecodeError", array |-> NoArray]
                ELSE [err |-> "", array |-> StrArray(<<string>>)]
       ELSE IF Len(array_serialized) % itemsize[data_type] # 0
            THEN [err |-> "ValueError", array |-> NoArray]
            ELSE [err |-> "",
                  array |-> NdArray(data_type, BytesToInts(array_serialized, itemsize[data_type]))]

----------------------------------------------------------------------------
(* metadata.py: the Index *)

\* metadata_types: offset and size are per-item lists, dtype is one value per key
metadata_types == <<"offset", "size", "dtype">>

\* One entry of an item's metadata, as File.add_item builds it
ArrayMetadata(key, offset, size, dtype) ==
  [key |-> key, m |-> [offset |-> offset, size |-> size, dtype |-> dtype]]

NoMpNdArray == [shape |-> <<0, 0>>, data |-> <<>>]

\* File._metadata = None
NoMetadata ==
  [kind |-> "None", none |-> TRUE, metadata |-> <<>>, data |-> <<>>,
   mp |-> NoMpNdArray, length |-> 0]

\* MetadataWriter.__init__
MetadataWriter ==
  [kind |-> "MetadataWriter", none |-> TRUE, metadata |-> <<>>, data |-> <<>>,
   mp |-> NoMpNdArray, length |-> 0]

KeysOf(entries) == {entries[x].key : x \in DOMAIN entries}

\* dict lookup self.metadata[array_key]
Lookup(metadata, key) ==
  metadata[CHOOSE x \in DOMAIN metadata : metadata[x].key = key]

\* MetadataWriter._init_metadata, from the entry it has reached
RECURSIVE _init_metadata_loop(_, _)
_init_metadata_loop(md, entries) ==
  IF entries = <<>> THEN [err |-> "", md |-> md]
  ELSE LET e == Head(entries)
       IN  IF DOMAIN e.m # Range(metadata_types)
           THEN [err |-> "MalformedEntryError", md |-> md]
           ELSE _init_metadata_loop(
                  [md EXCEPT !.metadata = Append(@, [key |-> e.key,
                                                     offset |-> Len(md.data),
                                                     size |-> Len(md.data) + 1,
                                                     dtype |-> e.m.dtype]),
                             !.data = @ \o << <<>>, <<>> >>],
                  Tail(entries))

_init_metadata(md, item_metadata) ==
  _init_metadata_loop([md EXCEPT !.none = FALSE, !.metadata = <<>>, !.data = <<>>],
                      item_metadata)

\* Mutant of _append_metadata: the dtype is compared for the item's first entry only
RECURSIVE _append_unchecked(_, _)
_append_unchecked(md, entries) ==
  IF entries = <<>> THEN [err |-> "", md |-> md]
  ELSE LET e == Head(entries)
           rec == Lookup(md.metadata, e.key)
       IN  _append_unchecked([md EXCEPT !.data[rec.offset + 1] = Append(@, e.m.offset),
                                        !.data[rec.size + 1] = Append(@, e.m.size)],
                             Tail(entries))

_append_metadata_first_only(md, entries) ==
  IF entries = <<>> THEN [err |-> "", md |-> md]
  ELSE LET e == Head(entries)
           rec == Lookup(md.metadata, e.key)
           md1 == [md EXCEPT !.data[rec.offset + 1] = Append(@, e.m.offset),
                             !.data[rec.size + 1] = Append(@, e.m.size)]
       IN  IF e.m.dtype # rec.dtype THEN [err |-> "TypeInconsistencyError", md |-> md1]
           ELSE _append_unchecked(md1, Tail(entries))

\* a dtype that differs from the recorded one is refused after the entry's offset
\* and size were appended
RECURSIVE _append_metadata(_, _)
_append_metadata(md, entries) ==
  IF entries = <<>> THEN [err |-> "", md |-> md]
  ELSE LET e == Head(entries)
           rec == Lookup(md.metadata, e.key)
       IN  IF DOMAIN e.m # Range(metadata_types)
           THEN [err |-> "MalformedEntryError", md |-> md]
           ELSE LET md1 == [md EXCEPT !.data[rec.offset + 1] = Append(@, e.m.offset),
                                      !.data[rec.size + 1] = Append(@, e.m.size)]
                IN  IF e.m.dtype # rec.dtype
                    THEN [err |-> "TypeInconsistencyError", md |-> md1]
                    ELSE _append_metadata(md1, Tail(entries))

\* Mutant of MetadataWriter.add_item: an item whose keys are a subset of the
\* established ones passes the key check
MetadataWriter_add_item_subset(md, item_metadata) ==
  LET r1 == IF md.length = 0 THEN _init_metadata(md, item_metadata)
            ELSE [err |-> "", md |-> md]
  IN  IF r1.err # "" THEN r1
      ELSE IF ~(KeysOf(item_metadata) \subseteq KeysOf(r1.md.metadata))
           THEN [err |-> "SchemaMismatchError", md |-> r1.md]
           ELSE LET r2 == _append_metadata(r1.md, item_metadata)
                IN  IF r2.err # "" THEN r2
                    ELSE [err |-> "", md |-> [r2.md EXCEPT !.length = @ + 1]]

\* Mutant of MetadataWriter.add_item: the metadata is initialised from every item, not
\* only from the first
MetadataWriter_add_item_reinit(md, item_metadata) ==
  LET r1 == _init_metadata(md, item_metadata)
  IN  IF r1.err # "" THEN r1
      ELSE IF KeysOf(item_metadata) # KeysOf(r1.md.metadata)
           THEN [err |-> "SchemaMismatchError", md |-> r1.md]
           ELSE LET r2 == _append_metadata(r1.md, item_metadata)
                IN  IF r2.err # "" THEN r2
                    ELSE [err |-> "", md |-> [r2.md EXCEPT !.length = @ + 1]]

MetadataWriter_add_item(md, item_metadata) ==
  LET r1 == IF md.length = 0 THEN _init_metadata(md, item_metadata)
            ELSE [err |-> "", md |-> md]
  IN  IF r1.err # "" THEN r1
      ELSE IF KeysOf(item_metadata) # KeysOf(r1.md.metadata)
           THEN [err |-> "SchemaMismatchError", md |-> r1.md]
           ELSE LET r2 == _append_metadata(r1.md, item_metadata)
                IN  IF r2.err # "" THEN r2
                    ELSE [err |-> "", md |-> [r2.md EXCEPT !.length = @ + 1]]

\* The strings a trailer holds (array keys and type tags), each written as one cell
Names == <<"a", "b", "c", "bool", "int8", "uint8", "int16", "uint16", "int32", "uint32",
           "int64", "uint64", "float16", "float32", "float64", "float128", "str">>

NameCode(s) == CHOOSE x \in DOMAIN Names : Names[x] = s

\* bson.dumps of {key: {offset: bytes, size: bytes, dtype: str}}: a length-prefixed
\* document, each binary field prefixed by its length
RECURSIVE bson_elements(_)
bson_elements(doc) ==
  IF doc = <<>> THEN <<>>
  ELSE LET e == Head(doc)
       IN  <<NameCode(e.key), Len(e.offset)>> \o e.offset \o <<Len(e.size)>> \o e.size
           \o <<NameCode(e.dtype)>> \o bson_elements(Tail(doc))

bson_dumps(doc) ==
  LET body == bson_elements(doc) IN <<Len(body) + 1>> \o body

\* bson.loads: the document, or an error on bytes that are no document
RECURSIVE bson_parse(_)
bson_parse(b) ==
  IF b = <<>> THEN [err |-> "", doc |-> <<>>]
  ELSE IF Len(b) < 2 \/ b[1] \notin DOMAIN Names \/ b[2] < 0 \/ Len(b) < 3 + b[2]
       THEN [err |-> "BsonError", doc |-> <<>>]
       ELSE LET no == b[2]
                ns == b[3 + no]
            IN  IF ns < 0 \/ Len(b) < 4 + no + ns \/ b[4 + no + ns] \notin DOMAIN Names
                THEN [err |-> "BsonError", doc |-> <<>>]
                ELSE LET rest == bson_parse(SubSeq(b, 5 + no + ns, Len(b)))
                     IN  IF rest.err # "" THEN rest
                         ELSE [err |-> "",
                               doc |-> <<[key |-> Names[b[1]],
                                          offset |-> SubSeq(b, 3, 2 + no),
                                          size |-> SubSeq(b, 4 + no, 3 + no + ns),
                                          dtype |-> Names[b[4 + no + ns]]]>> \o rest.doc]

bson_loads(b) ==
  IF b = <<>> \/ b[1] # Len(b) THEN [err |-> "BsonError", doc |-> <<>>]
  ELSE bson_parse(Tail(b))

\* MetadataWriter.tobytes
MetadataWriter_tobytes(md) ==
  IF md.kind # "MetadataWriter" \/ md.none
  THEN [err |-> "AttributeError", bytes |-> <<>>]
  ELSE [err |-> "",
        bytes |-> bson_dumps([x \in DOMAIN md.metadata |->
                    [key |-> md.metadata[x].key,
                     offset |-> IntsToBytes(md.data[md.metadata[x].offset + 1],
                                            NUM_BYTES_METADATA_OFFSET),
                     size |-> IntsToBytes(md.data[md.metadata[x].size + 1],
                                          NUM_BYTES_METADATA_LENGTH),
                     dtype |-> md.metadata[x].dtype]])]

\* MpNdArray.__init__ on np.array(arrays_list): the rows raveled into one shared
\* buffer with the recorded shape
MpNdArray(arrays_list) ==
  [shape |-> <<Len(arrays_list), Len(arrays_list[1])>>, data |-> Flatten(arrays_list)]

\* MpNdArray.__getitem__: np.ravel_multi_index refuses a coordinate outside the shape
MpNdArray_getitem(mp, index) ==
  IF index[1] < 0 \/ index[1] >= mp.shape[1] \/ index[2] < 0 \/ index[2] >= mp.shape[2]
  THEN [err |-> "ValueError", value |-> None]
  ELSE [err |-> "", value |-> mp.data[index[1] * mp.shape[2] + index[2] + 1]]

\* MetadataReader over rows of any lengths: the length of the first row is taken
\* as the item count
MetadataReader_first_column(serialized) ==
  LET raw == bson_loads(serialized)
      arrays_list ==
        Flatten([x \in DOMAIN raw.doc |->
                  <<BytesToInts(raw.doc[x].offset, NUM_BYTES_METADATA_OFFSET),
                    BytesToInts(raw.doc[x].size, NUM_BYTES_METADATA_LENGTH)>>])
      metadata ==
        [x \in DOMAIN raw.doc |->
          [key |-> raw.doc[x].key, offset |-> 2 * (x - 1), size |-> 2 * (x - 1) + 1,
           dtype |-> raw.doc[x].dtype]]
      md == [kind |-> "MetadataReader", none |-> FALSE, metadata |-> metadata,
             data |-> <<>>, mp |-> NoMpNdArray, length |-> 0]
  IN  IF raw.err # "" THEN [err |-> raw.err, md |-> NoMetadata]
      ELSE IF arrays_list = <<>> THEN [err |-> "IndexError", md |-> NoMetadata]
      ELSE [err |-> "",
            md |-> [md EXCEPT !.mp = MpNdArray(arrays_list),
                              !.length = Len(arrays_list[1])]]

\* MetadataReader.__init__ with MetadataReader.frombuffer; np.array refuses rows of
\* unequal length with ValueError (numpy before 1.24 builds an array of objects,
\* which the RawArray of MpNdArray refuses with TypeError: the call raises either way)
MetadataReader(serialized) ==
  LET raw == bson_loads(serialized)
      arrays_list ==
        Flatten([x \in DOMAIN raw.doc |->
                  <<BytesToInts(raw.doc[x].offset, NUM_BYTES_METADATA_OFFSET),
                    BytesToInts(raw.doc[x].size, NUM_BYTES_METADATA_LENGTH)>>])
      metadata ==
        [x \in DOMAIN raw.doc |->
          [key |-> raw.doc[x].key, offset |-> 2 * (x - 1), size |-> 2 * (x - 1) + 1,
           dtype |-> raw.doc[x].dtype]]
      md == [kind |-> "MetadataReader", none |-> FALSE, metadata |-> metadata,
             data |-> <<>>, mp |-> NoMpNdArray, length |-> 0]
  IN  IF raw.err # "" THEN [err |-> raw.err, md |-> NoMetadata]
      ELSE IF arrays_list = <<>> THEN [err |-> "IndexError", md |-> NoMetadata]
      ELSE IF \E x \in DOMAIN arrays_list : Len(arrays_list[x]) # Len(arrays_list[1])
           THEN [err |-> "ValueError", md |-> NoMetadata]
           ELSE [err |-> "",
                 md |-> [md EXCEPT !.mp = MpNdArray(arrays_list),
                                   !.length = Len(arrays_list[1])]]

\* MetadataReader.get
MetadataReader_get(md, item, array_key, metadata_key) ==
  IF array_key \notin KeysOf(md.metadata) THEN [err |-> "KeyError", value |-> None, tag |-> ""]
  ELSE LET rec == Lookup(md.metadata, array_key)
       IN  IF metadata_key = "dtype" THEN [err |-> "", value |-> None, tag |-> rec.dtype]
           ELSE LET r == MpNdArray_getitem(md.mp, <<rec[metadata_key], item>>)
                IN  [err |-> r.err, value |-> r.value, tag |-> ""]

----------------------------------------------------------------------------
(* The file system and the builtin file objects *)

Path == "/tmp/syrah_test_data.syr"

Min(x, y) == IF x < y THEN x ELSE y
Max(x, y) == IF x > y THEN x ELSE y

\* bytes of a file after writing b at position pos (a gap reads as zeros)
WriteAt(bytes, pos, b) ==
  IF b = <<>> THEN bytes
  ELSE [x \in 1..Max(Len(bytes), pos + Len(b)) |->
         IF x > pos /\ x <= pos + Len(b) THEN b[x - pos]
         ELSE IF x <= Len(bytes) THEN bytes[x] ELSE 0]

\* at most n bytes of a file from position pos
ReadAt(bytes, pos, n) == SubSeq(bytes, pos + 1, Min(pos + n, Len(bytes)))

\* the modes of the builtin open() (before its 'b') that give a file object one can
\* write to
Writable(mode) == mode \in {"w", "a", "x", "w+"}

\* A world: the disk, the open file descriptions, and the File object acting (f)
fp_seek(w, offset) == [w EXCEPT !.fds[w.f._fp].pos = offset]

\* a file object opened for append writes at the end of the file wherever it was
\* positioned
fp_write(w, b) ==
  LET pos == IF w.fds[w.f._fp].mode = "a" THEN Len(w.disk.bytes) ELSE w.fds[w.f._fp].pos
  IN  [w EXCEPT !.disk.bytes = WriteAt(@, pos, b),
                !.fds[w.f._fp].pos = pos + Len(b)]

fp_read(w, n) ==
  LET b == ReadAt(w.disk.bytes, w.fds[w.f._fp].pos, n)
  IN  [w |-> [w EXCEPT !.fds[w.f._fp].pos = @ + Len(b)], bytes |-> b]

fp_close(w) == [w EXCEPT !.fds[w.f._fp].closed = TRUE]

\* Mutant of builtin_open: a reader is handed the description another handle already
\* holds on the file (a descriptor inherited across a fork) instead of its own
builtin_open_shared(w, mode) ==
  IF mode = "r" /\ ~w.disk.exists THEN [err |-> "FileNotFoundError", w |-> w]
  ELSE IF mode = "r" /\ \E x \in DOMAIN w.fds : w.fds[x].mode = "r" /\ ~w.fds[x].closed
  THEN [err |-> "",
        w |-> [w EXCEPT !.f._fp = CHOOSE x \in DOMAIN w.fds :
                                     w.fds[x].mode = "r" /\ ~w.fds[x].closed]]
  ELSE [err |-> "",
        w |-> [w EXCEPT !.fds = Append(@, [pos |-> 0, closed |-> FALSE, mode |-> mode]),
                        !.f._fp = Len(w.fds) + 1,
                        !.disk = IF mode = "w" THEN [exists |-> TRUE, bytes |-> <<>>]
                                 ELSE @]]

\* open(path, mode + 'b'): a new file description of its own, at position 0;
\* 'wb' and 'w+b' create or truncate the file, 'rb' needs it to exist, 'ab' creates
\* it when it is missing and starts at its end, 'xb' creates it and refuses one that
\* exists; a string that is no mode of open() is refused with ValueError('invalid
\* mode'), the exception class _init_data raises for a mode it does not know
builtin_open(w, mode) ==
  IF mode \notin {"r", "w", "a", "x", "w+"} THEN [err |-> "InvalidModeError", w |-> w]
  ELSE IF mode = "r" /\ ~w.disk.exists THEN [err |-> "FileNotFoundError", w |-> w]
  ELSE IF mode = "x" /\ w.disk.exists THEN [err |-> "FileExistsError", w |-> w]
  ELSE [err |-> "",
        w |-> [w EXCEPT !.fds = Append(@, [pos |-> IF mode = "a" THEN Len(w.disk.bytes)
                                                   ELSE 0,
                                           closed |-> FALSE, mode |-> mode]),
                        !.f._fp = Len(w.fds) + 1,
                        !.disk = IF mode \in {"w", "w+"} \/ ~w.disk.exists
                                 THEN [exists |-> TRUE, bytes |-> <<>>]
                                 ELSE @]]

----------------------------------------------------------------------------
(* files.py: File *)

\* The fields File.__init__ sets before it opens the file
NewFile ==
  [made |-> FALSE, _file_path |-> "", _mode |-> "", _fp |-> 0, _version |-> <<>>,
   _metadata_offset |-> None, _metadata_length |-> None, _metadata |-> NoMetadata,
   _item_offset |-> None]

Ret(err, w) == [err |-> err, w |-> w, val |-> <<>>, n |-> None]

_version_to_bytes(version_string) == <<0>> \o version_string

_version_to_string(version_bytes) == Tail(version_bytes)

\* File._write_headers; a file object opened 'rb' refuses the write after the seek
_write_headers(w) ==
  IF w.fds[w.f._fp].closed THEN Ret("NotOpenError", w)
  ELSE IF w.f._mode # "w" THEN Ret("WrongModeError", w)
  ELSE IF ~Writable(w.fds[w.f._fp].mode) THEN Ret("UnsupportedOperation", fp_seek(w, 0))
  ELSE LET header_version == _version_to_bytes(w.f._version)
           header_metadata_offset == IntToBytes(w.f._metadata_offset, NUM_BYTES_METADATA_OFFSET)
           header_metadata_length == IntToBytes(w.f._metadata_length, NUM_BYTES_METADATA_LENGTH)
       IN  Ret("", fp_write(fp_write(fp_write(fp_write(fp_seek(w, 0), MAGIC_BYTES),
                                              header_version),
                                     header_metadata_offset),
                            header_metadata_length))

\* Mutant of _read_headers: only the first byte of the magic tag is compared
_read_headers_first_byte(w) ==
  IF w.fds[w.f._fp].closed THEN Ret("NotOpenError", w)
  ELSE IF w.f._mode # "r" THEN Ret("WrongModeError", w)
  ELSE LET r1 == fp_read(fp_seek(w, 0), NUM_BYTES_MAGIC_BYTES)
           r2 == fp_read(r1.w, NUM_BYTES_VERSION)
           r3 == fp_read(r2.w, NUM_BYTES_METADATA_OFFSET)
           r4 == fp_read(r3.w, NUM_BYTES_METADATA_LENGTH)
       IN  IF SubSeq(r1.bytes, 1, 1) # SubSeq(MAGIC_BYTES, 1, 1)
           THEN Ret("CorruptHeaderError", r1.w)
           ELSE IF Len(r3.bytes) # NUM_BYTES_METADATA_OFFSET
                   \/ Len(r4.bytes) # NUM_BYTES_METADATA_LENGTH
                THEN Ret("ValueError", r4.w)
           ELSE Ret("", [r4.w EXCEPT
                  !.f._version = _version_to_string(r2.bytes),
                  !.f._metadata_offset = BytesToInt(r3.bytes, NUM_BYTES_METADATA_OFFSET),
                  !.f._metadata_length = BytesToInt(r4.bytes, NUM_BYTES_METADATA_LENGTH)])

\* File._read_headers: the magic tag is compared before the other fields are read
\* _read_headers taking index_length from byte 6 and index_offset from byte 14
_read_headers_length_first(w) ==
  IF w.fds[w.f._fp].closed THEN Ret("NotOpenError", w)
  ELSE IF w.f._mode # "r" THEN Ret("WrongModeError", w)
  ELSE LET r1 == fp_read(fp_seek(w, 0), NUM_BYTES_MAGIC_BYTES)
           r2 == fp_read(r1.w, NUM_BYTES_VERSION)
           r3 == fp_read(r2.w, NUM_BYTES_METADATA_LENGTH)
           r4 == fp_read(r3.w, NUM_BYTES_METADATA_OFFSET)
       IN  IF r1.bytes # MAGIC_BYTES THEN Ret("CorruptHeaderError", r1.w)
           ELSE IF Len(r3.bytes) = 0 \/ Len(r4.bytes) = 0 THEN Ret("IndexError", r4.w)
           ELSE IF Len(r3.bytes) # NUM_BYTES_METADATA_LENGTH
                   \/ Len(r4.bytes) # NUM_BYTES_METADATA_OFFSET
                THEN Ret("ValueError", r4.w)
           ELSE Ret("", [r4.w EXCEPT
                  !.f._version = _version_to_string(r2.bytes),
                  !.f._metadata_length = BytesToInt(r3.bytes, NUM_BYTES_METADATA_LENGTH),
                  !.f._metadata_offset = BytesToInt(r4.bytes, NUM_BYTES_METADATA_OFFSET)])

_read_headers(w) ==
  IF w.fds[w.f._fp].closed THEN Ret("NotOpenError", w)
  ELSE IF w.f._mode # "r" THEN Ret("WrongModeError", w)
  ELSE LET r1 == fp_read(fp_seek(w, 0), NUM_BYTES_MAGIC_BYTES)
           r2 == fp_read(r1.w, NUM_BYTES_VERSION)
           r3 == fp_read(r2.w, NUM_BYTES_METADATA_OFFSET)
           r4 == fp_read(r3.w, NUM_BYTES_METADATA_LENGTH)
       IN  IF r1.bytes # MAGIC_BYTES THEN Ret("CorruptHeaderError", r1.w)
           ELSE IF Len(r3.bytes) = 0 \/ Len(r4.bytes) = 0 THEN Ret("IndexError", r4.w)
           ELSE IF Len(r3.bytes) # NUM_BYTES_METADATA_OFFSET
                   \/ Len(r4.bytes) # NUM_BYTES_METADATA_LENGTH
                THEN Ret("ValueError", r4.w)
           ELSE Ret("", [r4.w EXCEPT
                  !.f._version = _version_to_string(r2.bytes),
                  !.f._metadata_offset = BytesToInt(r3.bytes, NUM_BYTES_METADATA_OFFSET),
                  !.f._metadata_length = BytesToInt(r4.bytes, NUM_BYTES_METADATA_LENGTH)])

\* _flush taking index_offset from the position of the file object, not from the
\* write cursor
_flush_offset_from_tell(w) ==
  IF w.fds[w.f._fp].closed THEN Ret("NotOpenError", w)
  ELSE IF w.f._mode # "w" THEN Ret("WrongModeError", w)
  ELSE LET metadata_serialized == MetadataWriter_tobytes(w.f._metadata)
       IN  IF metadata_serialized.err # "" THEN Ret(metadata_serialized.err, w)
           ELSE LET w1 == [w EXCEPT !.f._metadata_offset = w.fds[w.f._fp].pos,
                                    !.f._metadata_length = Len(metadata_serialized.bytes)]
                    r == _write_headers(w1)
                IN  IF r.err # "" THEN r
                    ELSE Ret("", fp_write(fp_seek(r.w, w.f._item_offset),
                                          metadata_serialized.bytes))


_flush(w) ==
  IF w.fds[w.f._fp].closed THEN Ret("NotOpenError", w)
  ELSE IF w.f._mode # "w" THEN Ret("WrongModeError", w)
  ELSE LET metadata_serialized == MetadataWriter_tobytes(w.f._metadata)
       IN  IF metadata_serialized.err # "" THEN Ret(metadata_serialized.err, w)
           ELSE LET w1 == [w EXCEPT !.f._metadata_offset = w.f._item_offset,
                                    !.f._metadata_length = Len(metadata_serialized.bytes)]
                    r == _write_headers(w1)
                IN  IF r.err # "" THEN r
                    ELSE Ret("", fp_write(fp_seek(r.w, w.f._item_offset),
                                          metadata_serialized.bytes))

\* close() without the early return on a file object that is closed already
File_close_always_flush(w) ==
  IF w.f._fp = 0 THEN Ret("", w)
  ELSE LET r == IF w.f._mode = "w" THEN _flush(w) ELSE Ret("", w)
       IN  IF r.err # "" THEN r ELSE Ret("", fp_close(r.w))

File_close(w) ==
  IF w.f._fp = 0 THEN Ret("", w)
  ELSE IF w.fds[w.f._fp].closed THEN Ret("", w)
  ELSE LET r == IF w.f._mode = "w" THEN _flush(w) ELSE Ret("", w)
       IN  IF r.err # "" THEN r ELSE Ret("", fp_close(r.w))

\* File.close when the write of the trailer (the last line of _flush) raises OSError
\* after k of its bytes have reached the file: the header is already written
_flush_fault(w, k) ==
  IF w.fds[w.f._fp].closed THEN Ret("NotOpenError", w)
  ELSE IF w.f._mode # "w" THEN Ret("WrongModeError", w)
  ELSE LET metadata_serialized == MetadataWriter_tobytes(w.f._metadata)
       IN  IF metadata_serialized.err # "" THEN Ret(metadata_serialized.err, w)
           ELSE LET w1 == [w EXCEPT !.f._metadata_offset = w.f._item_offset,
                                    !.f._metadata_length = Len(metadata_serialized.bytes)]
                    r == _write_headers(w1)
                IN  IF r.err # "" THEN r
                    ELSE Ret("OSError",
                             fp_write(fp_seek(r.w, w.f._item_offset),
                                      SubSeq(metadata_serialized.bytes, 1, k)))

File_close_fault(w, k) ==
  IF w.f._fp = 0 THEN Ret("", w)
  ELSE IF w.fds[w.f._fp].closed THEN Ret("", w)
  ELSE LET r == IF w.f._mode = "w" THEN _flush_fault(w, k) ELSE Ret("", w)
       IN  IF r.err # "" THEN r ELSE Ret("", fp_close(r.w))

\* File.open up to the close of the file object the handle holds: the new path and
\* mode are assigned first
File_open_close(w, file_path, mode) ==
  LET w1 == [w EXCEPT !.f._file_path = file_path, !.f._mode = mode]
  IN  IF w1.f._fp # 0 THEN File_close(w1) ELSE Ret("", w1)

File_open(w, file_path, mode) ==
  LET r == File_open_close(w, file_path, mode)
  IN  IF r.err # "" THEN r
      ELSE LET o == builtin_open(r.w, mode) IN Ret(o.err, o.w)

_init_data(w) ==
  IF w.f._mode = "w"
  THEN LET r == _write_headers([w EXCEPT !.f._version = version,
                                         !.f._metadata_offset = 0,
                                         !.f._metadata_length = 0])
       IN  IF r.err # "" THEN r
           ELSE Ret("", [r.w EXCEPT
                  !.f._metadata = MetadataWriter,
                  !.f._item_offset = NUM_BYTES_VERSION + NUM_BYTES_METADATA_LENGTH
                                     + NUM_BYTES_METADATA_LENGTH + NUM_BYTES_MAGIC_BYTES])
  ELSE IF w.f._mode = "r"
  THEN LET r == _read_headers(w)
       IN  IF r.err # "" THEN r
           ELSE LET b == fp_read(fp_seek(r.w, r.w.f._metadata_offset), r.w.f._metadata_length)
                    m == MetadataReader(b.bytes)
                IN  IF m.err # "" THEN Ret(m.err, b.w)
                    ELSE Ret("", [b.w EXCEPT !.f._metadata = m.md])
  ELSE Ret("InvalidModeError", w)

File___init__(w, file_path, mode) ==
  LET r == File_open([w EXCEPT !.f = NewFile], file_path, mode)
  IN  IF r.err # "" THEN r
      ELSE LET d == _init_data(r.w)
           IN  IF d.err # "" THEN d ELSE Ret("", [d.w EXCEPT !.f.made = TRUE])

\* File.__exit__: close(), and returning None lets the exception of the scope go on
\* to the caller; an exception of close() takes its place
File___exit__(w, exception_type) ==
  LET r == File_close(w)
  IN  IF r.err # "" THEN r ELSE Ret(exception_type, r.w)

\* Mutant of the loop of File.add_item: item_offset is not advanced from one entry to
\* the next
RECURSIVE add_item_loop_same_offset(_, _, _, _)
add_item_loop_same_offset(w, entries, item_offset, metadata_item) ==
  IF entries = <<>>
  THEN [err |-> "", w |-> w, item_offset |-> item_offset, metadata_item |-> metadata_item]
  ELSE LET array_key == Head(entries).key
           array_value == Head(entries).value
           s == serialize_array(array_value)
       IN  IF array_value.pytype # "ndarray"
           THEN [err |-> "TypeMismatchError", w |-> w, item_offset |-> item_offset,
                 metadata_item |-> metadata_item]
           ELSE IF s.err # ""
           THEN [err |-> s.err, w |-> w, item_offset |-> item_offset,
                 metadata_item |-> metadata_item]
           ELSE add_item_loop_same_offset(
                  fp_write(fp_seek(w, item_offset), s.bytes),
                  Tail(entries),
                  item_offset,
                  Append(metadata_item,
                         ArrayMetadata(array_key, item_offset, Len(s.bytes), s.tag)))

\* the loop of File.add_item over the item's entries, from the entry it has reached
RECURSIVE add_item_loop(_, _, _, _)
add_item_loop(w, entries, item_offset, metadata_item) ==
  IF entries = <<>>
  THEN [err |-> "", w |-> w, item_offset |-> item_offset, metadata_item |-> metadata_item]
  ELSE LET array_key == Head(entries).key
           array_value == Head(entries).value
           s == serialize_array(array_value)
       IN  IF array_value.pytype # "ndarray"
           THEN [err |-> "TypeMismatchError", w |-> w, item_offset |-> item_offset,
                 metadata_item |-> metadata_item]
           ELSE IF s.err # ""
           THEN [err |-> s.err, w |-> w, item_offset |-> item_offset,
                 metadata_item |-> metadata_item]
           ELSE IF item_offset = None
           THEN [err |-> "TypeError", w |-> w, item_offset |-> item_offset,
                 metadata_item |-> metadata_item]
           ELSE IF ~Writable(w.fds[w.f._fp].mode)
           THEN [err |-> "UnsupportedOperation", w |-> fp_seek(w, item_offset),
                 item_offset |-> item_offset, metadata_item |-> metadata_item]
           ELSE add_item_loop(
                  fp_write(fp_seek(w, item_offset), s.bytes),
                  Tail(entries),
                  item_offset + Len(s.bytes),
                  Append(metadata_item,
                         ArrayMetadata(array_key, item_offset, Len(s.bytes), s.tag)))

\* add_item without its last statement: the write cursor is never advanced
File_add_item_cursor_kept(w, data) ==
  IF w.f._fp = 0 THEN Ret("NotOpenError", w)
  ELSE IF w.fds[w.f._fp].closed THEN Ret("NotOpenError", w)
  ELSE IF w.f._mode # "w" THEN Ret("WrongModeError", w)
  ELSE LET r == add_item_loop(w, data, w.f._item_offset, <<>>)
       IN  IF r.err # "" THEN Ret(r.err, r.w)
           ELSE IF r.w.f._metadata.kind # "MetadataWriter" THEN Ret("AttributeError", r.w)
           ELSE LET m == MetadataWriter_add_item(r.w.f._metadata, r.metadata_item)
                    w1 == [r.w EXCEPT !.f._metadata = m.md]
                IN  IF m.err # "" THEN Ret(m.err, w1) ELSE Ret("", w1)

File_add_item(w, data) ==
  IF w.f._fp = 0 THEN Ret("NotOpenError", w)
  ELSE IF w.fds[w.f._fp].closed THEN Ret("NotOpenError", w)
  ELSE IF w.f._mode # "w" THEN Ret("WrongModeError", w)
  ELSE LET r == add_item_loop(w, data, w.f._item_offset, <<>>)
       IN  IF r.err # "" THEN Ret(r.err, r.w)
           ELSE IF r.w.f._metadata.kind # "MetadataWriter" THEN Ret("AttributeError", r.w)
           ELSE LET m == MetadataWriter_add_item(r.w.f._metadata, r.metadata_item)
                    w1 == [r.w EXCEPT !.f._metadata = m.md]
                IN  IF m.err # "" THEN Ret(m.err, w1)
                    ELSE Ret("", [w1 EXCEPT !.f._item_offset = r.item_offset])

\* len(self._metadata)
\* the number of keys of the Index in place of its length
metadata_len_keys(md) == Len(md.metadata)

metadata_len(md) == md.length

\* Mutant of the checks: the index equal to the item count passes
read_checks_off_by_one(w, item) ==
  IF w.f._fp = 0 THEN "NotOpenError"
  ELSE IF w.fds[w.f._fp].closed THEN "NotOpenError"
  ELSE IF w.f._mode # "r" THEN "WrongModeError"
  ELSE IF w.f._metadata.kind = "None" THEN "TypeError"
  ELSE IF item > w.f._metadata.length THEN "IndexOutOfRangeError"
  ELSE ""

\* Mutant of the checks: the mode of the handle is not looked at
read_checks_no_mode(w, item) ==
  IF w.f._fp = 0 THEN "NotOpenError"
  ELSE IF w.fds[w.f._fp].closed THEN "NotOpenError"
  ELSE IF w.f._metadata.kind = "None" THEN "TypeError"
  ELSE IF item >= w.f._metadata.length THEN "IndexOutOfRangeError"
  ELSE ""

\* the checks that open get_item and get_array
read_checks(w, item) ==
  IF w.f._fp = 0 THEN "NotOpenError"
  ELSE IF w.fds[w.f._fp].closed THEN "NotOpenError"
  ELSE IF w.f._mode # "r" THEN "WrongModeError"
  ELSE IF w.f._metadata.kind = "None" THEN "TypeError"
  ELSE IF item >= metadata_len(w.f._metadata) THEN "IndexOutOfRangeError"
  ELSE ""

\* File.get_item: neither metadata class has the attribute array_keys it iterates
File_get_item(w, item) ==
  IF read_checks(w, item) # "" THEN Ret(read_checks(w, item), w)
  ELSE Ret("AttributeError", w)

\* Mutant of get_array: it seeks only when the position is past the wanted offset,
\* trusting the position a sequential read leaves
get_array_seek_backward_only(w, item, key) ==
  IF w.f._fp = 0 THEN Ret("NotOpenError", w)
  ELSE IF w.fds[w.f._fp].closed THEN Ret("NotOpenError", w)
  ELSE IF w.f._mode # "r" THEN Ret("WrongModeError", w)
  ELSE IF w.f._metadata.kind = "None" THEN Ret("TypeError", w)
  ELSE IF item >= w.f._metadata.length THEN Ret("IndexOutOfRangeError", w)
  ELSE IF key \notin KeysOf(w.f._metadata.metadata) THEN Ret("UnknownKeyError", w)
  ELSE IF w.f._metadata.kind # "MetadataReader" THEN Ret("AttributeError", w)
  ELSE LET o == MetadataReader_get(w.f._metadata, item, key, "offset")
       IN  IF o.err # "" THEN Ret(o.err, w)
           ELSE IF w.fds[w.f._fp].pos > o.value THEN Ret("", fp_seek(w, o.value))
           ELSE Ret("", w)

\* File.get_array up to and including its seek
get_array_seek(w, item, key) ==
  IF read_checks(w, item) # "" THEN Ret(read_checks(w, item), w)
  ELSE IF key \notin KeysOf(w.f._metadata.metadata) THEN Ret("UnknownKeyError", w)
  ELSE IF w.f._metadata.kind # "MetadataReader" THEN Ret("AttributeError", w)
  ELSE LET o == MetadataReader_get(w.f._metadata, item, key, "offset")
       IN  IF o.err # "" THEN Ret(o.err, w) ELSE Ret("", fp_seek(w, o.value))

\* File.get_array from its read on
get_array_read(w, item, key) ==
  LET s == MetadataReader_get(w.f._metadata, item, key, "size")
      r == fp_read(w, s.value)
      t == MetadataReader_get(w.f._metadata, item, key, "dtype")
      a == deserialize_array(r.bytes, t.tag)
  IN  IF s.err # "" THEN Ret(s.err, w)
      ELSE IF a.err # "" THEN Ret(a.err, r.w)
      ELSE [err |-> "", w |-> r.w, val |-> <<[key |-> key, value |-> a.array]>>, n |-> None]

File_get_array(w, item, key) ==
  LET r == get_array_seek(w, item, key)
  IN  IF r.err # "" THEN r ELSE get_array_read(r.w, item, key)

File_num_items(w) ==
  IF w.f._metadata.kind = "None" THEN Ret("TypeError", w)
  ELSE [err |-> "", w |-> w, val |-> <<>>, n |-> metadata_len(w.f._metadata)]

----------------------------------------------------------------------------
(* The callers: one write handle, then read handles on the written file *)

Writer == 0
Readers == 1..NumReaders
Handles == {Writer} \cup Readers
\* the handles of the single-reader specification
MainHandles == {Writer, 1}

Entry(key, value) == [key |-> key, value |-> value]

\* The items the callers pass to add_item
ItemAB == <<Entry("a", NdArray("int8", <<4>>)), Entry("b", NdArray("int16", <<300, -2>>))>>
ItemBA == <<Entry("b", NdArray("int16", <<7>>)), Entry("a", NdArray("int8", <<>>))>>
ItemText == <<Entry("a", NdArray("int8", <<-9>>)), Entry("b", StrArray(<<<<104, 233>>, <<121>>>>))>>
ItemAC == <<Entry("a", NdArray("int8", <<1>>)), Entry("c", NdArray("int8", <<2>>))>>
ItemA == <<Entry("a", NdArray("int8", <<5>>))>>
ItemList == <<Entry("a", NdArray("int8", <<3>>)), Entry("b", NotAnArray)>>

Items == {ItemAB, ItemBA, ItemText, ItemAC, ItemA, ItemList}
\* the items of the many-reader specification: all of one schema
MPItems == {ItemAB, ItemBA}

\* the reads of the many-reader specification: each reader has its own slice of
\* the indices
MPIndices == 0..(MaxCalls - 1)
MPKeys == {"a", "b"}
Slice(h) == {item \in MPIndices : item % NumReaders = h - 1}

ReadKeys == {"a", "b", "c"}

\* the items of the specification of the handles' life: one the file takes, one it
\* refuses for a value that is no array
LifeItems == {ItemA, ItemList}
\* how many bytes of the trailer reach the file when its write fails
FaultCuts == {0, 1}
ReadIndices == 0..(MaxCalls + 1)

Idle == [op |-> "", item |-> None, key |-> ""]
NoCall == [h |-> None, op |-> "", item |-> None, key |-> "", err |-> "", val |-> <<>>,
           n |-> None, pos0 |-> None]

World(h) == [disk |-> disk, fds |-> fds, f |-> F[h]]

\* fp.tell() of a handle (None without a file object)
Tell(h) == IF F[h]._fp = 0 THEN None ELSE fds[F[h]._fp].pos

\* a call on handle h has returned (err = "") or raised: the world it leaves and
\* what the caller sees; pos0 is the handle's position when the step began
Returns(h, op, item, key, r) ==
  /\ disk' = r.w.disk
  /\ fds' = r.w.fds
  /\ F' = [F EXCEPT ![h] = r.w.f]
  /\ last' = [h |-> h, op |-> op, item |-> item, key |-> key, err |-> r.err,
              val |-> r.val, n |-> r.n, pos0 |-> Tell(h)]

IsOpen(h) == F[h].made /\ F[h]._fp # 0 /\ ~fds[F[h]._fp].closed
IsClosed(h) == F[h].made /\ F[h]._fp # 0 /\ fds[F[h]._fp].closed
IsOpenWriter(h) == IsOpen(h) /\ F[h]._mode = "w"
IsOpenReader(h) == IsOpen(h) /\ F[h]._mode = "r"

\* the arguments tried on a handle: every one where the call can get past its
\* checks, one where it cannot
ItemsFor(h) == IF IsOpenWriter(h) THEN Items ELSE {ItemAB}
IndicesFor(h) == IF IsOpenReader(h) THEN ReadIndices ELSE {0}
KeysFor(h) == IF IsOpenReader(h) THEN ReadKeys ELSE {"a"}

Init ==
  /\ disk = [exists |-> FALSE, bytes |-> <<>>]
  /\ fds = <<>>
  /\ F = [h \in Handles |-> NewFile]
  /\ pc = [h \in Handles |-> Idle]
  /\ last = NoCall
  /\ log = <<>>

\* File(path, 'w') by the writer
Create ==
  /\ ~F[Writer].made /\ F[Writer]._fp = 0
  /\ Returns(Writer, "__init__", None, "w", File___init__(World(Writer), Path, "w"))
  /\ UNCHANGED <<pc, log>>

\* File(path, 'r') by a reader, once the writer has closed the file
OpenRead(h) ==
  /\ h \in Readers /\ IsClosed(Writer)
  /\ ~F[h].made /\ F[h]._fp = 0
  /\ Returns(h, "__init__", None, "r", File___init__(World(h), Path, "r"))
  /\ UNCHANGED <<pc, log>>

\* add_item(data) on a handle; log keeps the calls that reach the open write handle
AddItem(h, data) ==
  /\ F[h].made /\ pc[h] = Idle
  /\ IsOpenWriter(h) => Len(log) < MaxCalls
  /\ LET r == File_add_item(World(h), data)
     IN  /\ Returns(h, "add_item", None, "", r)
         /\ log' = IF IsOpenWriter(h) THEN Append(log, [data |-> data, err |-> r.err])
                   ELSE log
  /\ UNCHANGED pc

Close(h) ==
  /\ F[h].made /\ pc[h] = Idle
  /\ Returns(h, "close", None, "", File_close(World(h)))
  /\ UNCHANGED <<pc, log>>

GetItem(h, item) ==
  /\ F[h].made /\ pc[h] = Idle
  /\ Returns(h, "get_item", item, "", File_get_item(World(h), item))
  /\ UNCHANGED <<pc, log>>

GetArray(h, item, key) ==
  /\ F[h].made /\ pc[h] = Idle
  /\ Returns(h, "get_array", item, key, File_get_array(World(h), item, key))
  /\ UNCHANGED <<pc, log>>

NumItems(h) ==
  /\ F[h].made /\ pc[h] = Idle
  /\ Returns(h, "num_items", None, "", File_num_items(World(h)))
  /\ UNCHANGED <<pc, log>>

\* get_array in a reader process, as far as its seek
GetArraySeek(h, item, key) ==
  /\ IsOpenReader(h) /\ pc[h] = Idle
  /\ LET r == get_array_seek(World(h), item, key)
     IN  IF r.err # ""
         THEN Returns(h, "get_array", item, key, r) /\ UNCHANGED pc
         ELSE /\ disk' = r.w.disk /\ fds' = r.w.fds /\ F' = [F EXCEPT ![h] = r.w.f]
              /\ pc' = [pc EXCEPT ![h] = [op |-> "get_array", item |-> item, key |-> key]]
              /\ UNCHANGED last
  /\ UNCHANGED log

\* the rest of that get_array: its read and the decoding
GetArrayRead(h) ==
  /\ pc[h].op = "get_array"
  /\ Returns(h, "get_array", pc[h].item, pc[h].key,
             get_array_read(World(h), pc[h].item, pc[h].key))
  /\ pc' = [pc EXCEPT ![h] = Idle]
  /\ UNCHANGED log

Next ==
  \/ Create
  \/ \E h \in MainHandles : OpenRead(h)
  \/ \E h \in MainHandles : \E data \in ItemsFor(h) : AddItem(h, data)
  \/ \E h \in MainHandles : Close(h)
  \/ \E h \in MainHandles : \E item \in IndicesFor(h) : GetItem(h, item)
  \/ \E h \in MainHandles : \E item \in IndicesFor(h), key \in KeysFor(h) :
        GetArray(h, item, key)
  \/ \E h \in MainHandles : NumItems(h)

Spec == Init /\ [][Next]_vars

\* Many readers: each in its own process and reading its own slice, its get_array
\* calls interleaved with the others' between the seek and the read
NextMP ==
  \/ Create
  \/ \E h \in Readers : OpenRead(h)
  \/ \E data \in MPItems : IsOpenWriter(Writer) /\ AddItem(Writer, data)
  \/ IsOpenWriter(Writer) /\ Close(Writer)
  \/ \E h \in Readers : IsOpenReader(h) /\ GetItem(h, 0)
  \/ \E h \in Readers : \E item \in Slice(h), key \in MPKeys : GetArraySeek(h, item, key)
  \/ \E h \in Readers : GetArrayRead(h)

SpecMP == Init /\ [][NextMP]_vars

\* open(path, mode) on a handle that exists: the key of last is the mode
Reopen(h, mode) ==
  /\ F[h].made /\ pc[h] = Idle
  /\ Len(fds) < MaxOpens
  /\ Returns(h, "open", None, mode, File_open(World(h), Path, mode))
  /\ UNCHANGED <<pc, log>>

\* the file is damaged where it lies: one byte of its magic tag is flipped
Corrupt(pos) ==
  /\ IsClosed(Writer) /\ pos < Len(disk.bytes)
  /\ disk.bytes[pos + 1] = MAGIC_BYTES[pos + 1]
  /\ disk' = [disk EXCEPT !.bytes[pos + 1] = 255 - @]
  /\ UNCHANGED <<fds, F, pc, last, log>>

\* close() of an open write handle while the device refuses the trailer after k bytes
CloseFault(h, k) ==
  /\ F[h].made /\ pc[h] = Idle
  /\ IsOpenWriter(h)
  /\ Returns(h, "close", None, "", File_close_fault(World(h), k))
  /\ UNCHANGED <<pc, log>>

\* the exceptions a with-block on h can end with: none, or the one its last call raised
ScopeExceptions(h) == {""} \cup (IF last.h = h THEN {last.err} ELSE {})

\* leaving the with-block of a handle: __exit__(exception_type, ...); the key of last
\* is the exception the block ended with, err is what reaches the caller
ExitScope(h, exception_type) ==
  /\ F[h].made /\ pc[h] = Idle
  /\ Returns(h, "__exit__", None, exception_type,
             File___exit__(World(h), exception_type))
  /\ UNCHANGED <<pc, log>>

\* The life of the handles: opening again, scopes, a damaged file, a failing device
NextLife ==
  \/ Create
  \/ \E h \in MainHandles : OpenRead(h)
  \/ \E data \in LifeItems : Len(log) < MaxLifeCalls /\ AddItem(Writer, data)
  \/ \E h \in MainHandles : Close(h)
  \/ \E h \in MainHandles : GetArray(h, 0, "a")
  \/ \E h \in MainHandles : NumItems(h)
  \/ \E h \in MainHandles, mode \in {"r", "w"} : Reopen(h, mode)
  \/ \E pos \in 0..(NUM_BYTES_MAGIC_BYTES - 1) : Corrupt(pos)
  \/ \E k \in FaultCuts : CloseFault(Writer, k)
  \/ \E h \in MainHandles : \E exception_type \in ScopeExceptions(h) :
        ExitScope(h, exception_type)

SpecLife == Init /\ [][NextLife]_vars

\* the mode strings callers pass: the two File knows, three more that the builtin
\* open() takes, and one it refuses
OpenModes == {"r", "w", "a", "x", "w+", "rw"}

\* File(path, mode) by a reader process, with any mode and whatever the file is; a
\* constructor that raised leaves no object, and the next call starts afresh
Construct(h, mode) ==
  /\ h \in Readers /\ ~F[h].made
  /\ Len(fds) < MaxOpens
  /\ Returns(h, "__init__", None, mode, File___init__(World(h), Path, mode))
  /\ UNCHANGED <<pc, log>>

\* Opening with every mode: by the constructor and by open() on a handle that exists
NextOpen ==
  \/ Create
  \/ \E h \in MainHandles \cap Readers, mode \in OpenModes : Construct(h, mode)
  \/ Len(log) < MaxLifeCalls /\ AddItem(Writer, ItemA)
  \/ \E h \in MainHandles : Close(h)
  \/ \E h \in MainHandles, mode \in OpenModes : Reopen(h, mode)
  \/ \E pos \in 0..(NUM_BYTES_MAGIC_BYTES - 1) : Corrupt(pos)

SpecOpen == Init /\ [][NextOpen]_vars

\* Trailers as a reader may find them, well formed or not: one or two keys, every
\* column of any length up to MaxColumn
ColumnOf(n, v) == IntsToBytes([x \in 1..n |-> v], NUM_BYTES_METADATA_OFFSET)
TrailerEntry(key, no, ns) ==
  [key |-> key, offset |-> ColumnOf(no, Len(MAGIC_BYTES) + NUM_BYTES_VERSION
                                        + NUM_BYTES_METADATA_OFFSET
                                        + NUM_BYTES_METADATA_LENGTH),
   size |-> ColumnOf(ns, 0), dtype |-> "int8"]
TrailerDocs ==
  {<<TrailerEntry("a", no, ns)>> : no \in 0..MaxColumn, ns \in 0..MaxColumn}
    \cup {<<TrailerEntry("a", n[1], n[2]), TrailerEntry("b", n[3], n[4])>> :
            n \in [1..4 -> 0..MaxColumn]}

\* a file with a finalized header, no payload and the given trailer
FileOf(doc) ==
  MAGIC_BYTES \o _version_to_bytes(version)
    \o IntToBytes(Len(MAGIC_BYTES) + NUM_BYTES_VERSION + NUM_BYTES_METADATA_OFFSET
                    + NUM_BYTES_METADATA_LENGTH, NUM_BYTES_METADATA_OFFSET)
    \o IntToBytes(Len(bson_dumps(doc)), NUM_BYTES_METADATA_LENGTH)
    \o bson_dumps(doc)

InitIndex ==
  /\ \E doc \in TrailerDocs : disk = [exists |-> TRUE, bytes |-> FileOf(doc)]
  /\ fds = <<>>
  /\ F = [h \in Handles |-> NewFile]
  /\ pc = [h \in Handles |-> Idle]
  /\ last = NoCall
  /\ log = <<>>

\* Readers of a file found on disk
NextIndex ==
  \/ \E h \in MainHandles \cap Readers : Construct(h, "r")
  \/ \E h \in MainHandles \cap Readers : NumItems(h)
  \/ \E h \in MainHandles \cap Readers : Close(h)

SpecIndex == InitIndex /\ [][NextIndex]_vars

----------------------------------------------------------------------------
(* What the callers passed, and what a file holds *)

\* the calls of log that returned, in order
Accepted == SelectSeq(log, LAMBDA e : e.err = "")
AllAccepted == \A x \in DOMAIN log : log[x].err = ""

ValueOf(data, key) == data[CHOOSE x \in DOMAIN data : data[x].key = key].value
Supported(data) ==
  \A x \in DOMAIN data :
     data[x].value.pytype = "ndarray" /\ format_dtype(data[x].value.dtype).err = ""
TagOf(data, key) == serialize_array(ValueOf(data, key)).tag

\* an array as a reader sees it: flat, and a text array joined into one element
AsRead(value) ==
  IF value.dtype = "unicode" THEN StrArray(<<value.data>>)
  ELSE NdArray(value.dtype, value.data)

\* the trailer of the file on disk, decoded without any handle
DiskTrailer ==
  LET off == BytesToInt(SubSeq(disk.bytes, 7, 14), 8)
      len == BytesToInt(SubSeq(disk.bytes, 15, 22), 8)
  IN  bson_loads(ReadAt(disk.bytes, off, len)).doc
DiskKeys == KeysOf(DiskTrailer)
DiskItemCount == Len(DiskTrailer[1].offset) \div 8

\* a handle of its own, opened on the file as it is now, with no read made yet
Alone == File___init__([disk |-> disk, fds |-> <<>>, f |-> NewFile], Path, "r").w
Outcome(r) == [err |-> r.err, val |-> r.val]
LastOutcome == [err |-> last.err, val |-> last.val]

\* the last call was a read on a handle open for read
LastRead(op) == last.op = op /\ IsOpenReader(last.h)
\* last is the add_item call at the end of log
LastAdd == last.op = "add_item" /\ last.h = Writer /\ IsOpenWriter(Writer) /\ log # <<>>
LastData == log[Len(log)].data
\* the first call that returned, when the last call is a later one
Established == \E x \in 1..(Len(log) - 1) : log[x].err = ""
FirstData == log[CHOOSE x \in DOMAIN log : log[x].err = "" /\ \A y \in 1..(x - 1) : log[y].err # ""].data
Keys(data) == {data[x].key : x \in DOMAIN data}

Index == F[Writer]._metadata
Column(md, key, field) == md.data[Lookup(md.metadata, key)[field] + 1]
Schema(md) == {<<md.metadata[x].key, md.metadata[x].dtype>> : x \in DOMAIN md.metadata}

----------------------------------------------------------------------------
(* The claims *)

\* C1: after writing N >= 1 accepted items of one key set, closing and opening for
\* read, get_item(i) for 0 <= i < N returns a mapping whose keys are the file's keys
\* and whose value for every key has the bytes and the element type passed for that
\* key in the i-th add_item call.
C1_GetItemRoundTrip ==
  (LastRead("get_item") /\ AllAccepted /\ last.item \in 0..(Len(log) - 1)) =>
     /\ last.err = ""
     /\ {last.val[x].key : x \in DOMAIN last.val} = Keys(FirstData)
     /\ \A x \in DOMAIN last.val :
           last.val[x].value = AsRead(ValueOf(log[last.item + 1].data, last.val[x].key))

C3_MultiProcessRead ==
  /\ (LastRead("get_array") /\ last.h \in Readers) =>
        LastOutcome = Outcome(File_get_array(Alone, last.item, last.key))
  /\ (LastRead("get_item") /\ last.h \in Readers) =>
        LastOutcome = Outcome(File_get_item(Alone, last.item))
  /\ \A h \in Readers :
        pc[h].op = "get_array" =>
           Tell(h) = MetadataReader_get(F[h]._metadata, pc[h].item, pc[h].key, "offset").value

C3_Witness ==
  /\ LastRead("get_array") /\ last.err = "" /\ last.val[1].value.data # <<>>
  /\ \E h \in Readers : h # last.h /\ pc[h].op = "get_array" /\ Tell(h) < last.pos0

\* C4: on one read handle, the outcome of get_item(i) and of get_array(i, key) is the
\* one a handle that has made no read before gives, whatever reads were made before
\* and wherever they left the handle's position.
C4_OrderIndependence ==
  /\ LastRead("get_array") =>
        LastOutcome = Outcome(File_get_array(Alone, last.item, last.key))
  /\ LastRead("get_item") =>
        LastOutcome = Outcome(File_get_item(Alone, last.item))

\* a read that returned an earlier payload after a read of a later one
C4_Witness ==
  /\ LastRead("get_array") /\ last.err = "" /\ last.val[1].value.data # <<>>
  /\ last.pos0 # F[last.h]._metadata_offset + F[last.h]._metadata_length
  /\ last.pos0 > Tell(last.h)

\* C5: once a first add_item has established the key set, an add_item whose key set
\* differs (subset, superset, other set) fails and leaves the Index exactly as it
\* was; with supported arrays as values the failure is SchemaMismatchError.
C5_SchemaEnforcement ==
  [][(IsOpenWriter(Writer) /\ Index.length >= 1 /\ Len(log') = Len(log) + 1
      /\ Keys(log'[Len(log')].data) # KeysOf(Index.metadata)) =>
       /\ last'.err # ""
       /\ Supported(log'[Len(log')].data) => last'.err = "SchemaMismatchError"
       /\ F'[Writer]._metadata = Index]_vars

\* a subset and a set that is neither subset nor superset, both refused
C5_Witness ==
  /\ Len(log) = 3 /\ log[1].err = ""
  /\ log[2].err = "SchemaMismatchError" /\ log[3].err = "SchemaMismatchError"
  /\ \E x \in {2, 3} : Keys(log[x].data) \subseteq Keys(log[1].data)
  /\ \E x \in {2, 3} : ~(Keys(log[x].data) \subseteq Keys(log[1].data))

\* C6: an add_item with the established key set and supported arrays in which some
\* key's tag differs from the tag the first item recorded for it fails with
\* TypeInconsistencyError, wherever that key stands among the item's keys.
C6_TypeStability ==
  (LastAdd /\ Established /\ Supported(LastData) /\ Keys(LastData) = Keys(FirstData)
   /\ \E key \in Keys(LastData) : TagOf(LastData, key) # TagOf(FirstData, key)) =>
     last.err = "TypeInconsistencyError"

\* the changed type is on the last key of the item, the first key is unchanged
C6_Witness ==
  /\ LastAdd /\ Established /\ last.err = "TypeInconsistencyError"
  /\ TagOf(LastData, LastData[1].key) = TagOf(FirstData, LastData[1].key)
  /\ TagOf(LastData, LastData[Len(LastData)].key) # TagOf(FirstData, LastData[Len(LastData)].key)

\* C7: in every state of a write handle, after accepted and rejected add_item calls
\* alike, every key's offsets column and sizes column have length item_count.
C7_ColumnLengths ==
  Index.kind = "MetadataWriter" =>
     \A x \in DOMAIN Index.data : Len(Index.data[x]) = Index.length

\* C8: once the first add_item was accepted, no later step (accepted or rejected
\* add_item, num_items, close, a read refused for the mode) changes the key set or
\* any key's recorded type tag, nor the order of the keys.
C8_SchemaImmutable ==
  [][(Index.kind = "MetadataWriter" /\ Index.length >= 1) =>
       /\ Schema(F'[Writer]._metadata) = Schema(Index)
       /\ [x \in DOMAIN Index.metadata |-> Index.metadata[x].key]
            = [x \in DOMAIN F'[Writer]._metadata.metadata |-> F'[Writer]._metadata.metadata[x].key]
       /\ Schema(Index) = {<<key, TagOf(FirstData, key)>> : key \in Keys(FirstData)}]_vars

\* accepted, refused for its type, accepted again, closed
C8_Witness ==
  /\ IsClosed(Writer) /\ Len(log) = 3 /\ last.op = "close" /\ last.err = ""
  /\ log[1].err = "" /\ log[2].err = "TypeInconsistencyError" /\ log[3].err = ""

\* C9: every (offset, size) the write handle's Index records lies in the payload
\* region, 22 <= offset and offset + size <= write cursor, the regions of two
\* distinct entries do not overlap, and a column's offsets never decrease.
C9_PayloadRegions ==
  Index.kind = "MetadataWriter" =>
     LET entries == {<<key, x>> : key \in KeysOf(Index.metadata), x \in 1..MaxCalls + 1}
         has(e) == e[2] <= Len(Column(Index, e[1], "offset"))
                   /\ e[2] <= Len(Column(Index, e[1], "size"))
         off(e) == Column(Index, e[1], "offset")[e[2]]
         end(e) == off(e) + Column(Index, e[1], "size")[e[2]]
     IN  /\ \A e \in entries : has(e) => off(e) >= 22 /\ end(e) <= F[Writer]._item_offset
         /\ \A e1, e2 \in entries :
               (has(e1) /\ has(e2) /\ e1 # e2) => (end(e1) <= off(e2) \/ end(e2) <= off(e1))
         /\ \A e1, e2 \in entries :
               (has(e1) /\ has(e2) /\ e1[1] = e2[1] /\ e1[2] < e2[2]) => off(e1) <= off(e2)

\* C10: on a read handle of a file whose trailer holds N items, get_item(i) and
\* get_array(i, key) with i >= N fail with IndexOutOfRangeError, get_array(i, key)
\* with 0 <= i < N and a key the trailer does not hold fails with UnknownKeyError,
\* and neither returns a payload.
C10_BoundsChecking ==
  /\ ((LastRead("get_item") \/ LastRead("get_array")) /\ last.item >= DiskItemCount) =>
        last.err = "IndexOutOfRangeError" /\ last.val = <<>>
  /\ (LastRead("get_array") /\ last.item \in 0..(DiskItemCount - 1)
      /\ last.key \notin DiskKeys) =>
        last.err = "UnknownKeyError" /\ last.val = <<>>

\* get_array at the first index past the end, after a read that returned
C10_Witness ==
  /\ LastRead("get_array") /\ last.item = DiskItemCount /\ DiskItemCount >= 2
  /\ last.key \in DiskKeys /\ last.err = "IndexOutOfRangeError"
  /\ last.pos0 # F[last.h]._metadata_offset + F[last.h]._metadata_length

\* the step is the constructor File(path, mode) on handle h
Constructed(h, mode) ==
  /\ F[h]._fp = 0 /\ ~F[h].made
  /\ last'.h = h /\ last'.op = "__init__" /\ last'.key = mode

\* the step is open(path, mode) on the existing handle h
Reopened(h, mode) ==
  /\ F[h].made
  /\ last'.h = h /\ last'.op = "open" /\ last'.key = mode /\ last' # last

C12_ModeAndLifecycle ==
  [][\A h \in Handles :
       LET called == last'.h = h /\ last'.op \in {"add_item", "get_item", "get_array"}
           untouched == disk' = disk /\ fds' = fds /\ F' = F
       IN  /\ (called /\ IsClosed(h)) => (last'.err = "NotOpenError" /\ untouched)
           /\ (called /\ IsOpenReader(h) /\ last'.op = "add_item") =>
                 (last'.err = "WrongModeError" /\ untouched)
           /\ (called /\ IsOpenWriter(h) /\ last'.op # "add_item") =>
                 (last'.err = "WrongModeError" /\ untouched)
           /\ (last'.h = h /\ F[h].made /\ F[h]._mode = "r") => disk' = disk]_vars

\* a read refused on the write handle that holds items
C12_Witness ==
  /\ last.h = Writer /\ last.op = "get_array" /\ last.err = "WrongModeError"
  /\ IsOpenWriter(Writer) /\ Index.length >= 2

\* h is a write handle with a writable file object, open, and holding items
OpenWithItems(h) ==
  /\ IsOpenWriter(h) /\ fds[F[h]._fp].mode = "w"
  /\ F[h]._metadata.kind = "MetadataWriter" /\ F[h]._metadata.length >= 1

\* C13: when open(path2, mode2) is called on an open write handle, for mode2 read and
\* for mode2 write, the handle is first closed as a write handle: when the new file
\* is opened the previous file holds the bytes close() leaves, the finalized header
\* and the serialized Index.
C13_ReopenFinalizes ==
  [][\A h \in Handles : \A mode \in {"r", "w"} :
       (Reopened(h, mode) /\ OpenWithItems(h)) =>
          /\ File_close(World(h)).err = ""
          /\ File_open_close(World(h), Path, mode).w.disk = File_close(World(h)).w.disk]_vars

\* what an Index holds, whichever class keeps it: the keys with their tags in order,
\* each key's offsets and sizes columns, the item count
IndexView(md) ==
  [schema |-> [x \in DOMAIN md.metadata |-> <<md.metadata[x].key, md.metadata[x].dtype>>],
   columns |-> [x \in DOMAIN md.metadata |->
                  IF md.kind = "MetadataReader"
                  THEN <<SubSeq(md.mp.data, md.metadata[x].offset * md.mp.shape[2] + 1,
                                (md.metadata[x].offset + 1) * md.mp.shape[2]),
                         SubSeq(md.mp.data, md.metadata[x].size * md.mp.shape[2] + 1,
                                (md.metadata[x].size + 1) * md.mp.shape[2])>>
                  ELSE <<md.data[md.metadata[x].offset + 1], md.data[md.metadata[x].size + 1]>>],
   count |-> md.length]

\* C14: after every successful open for read, by the constructor or by open() on a
\* handle that exists, the header of the file has been read and validated and the
\* handle's header fields and Index (keys, tags, columns, item count) are those of
\* the file's header and trailer, so num_items() is the file's item count.
C14_OpenReadLoadsIndex ==
  [][\A h \in Handles :
       ((Constructed(h, "r") \/ Reopened(h, "r")) /\ last'.err = "") =>
          LET alone == File___init__([disk |-> disk', fds |-> <<>>, f |-> NewFile], Path, "r")
          IN  /\ alone.err = ""
              /\ F'[h]._version = alone.w.f._version
              /\ F'[h]._metadata_offset = alone.w.f._metadata_offset
              /\ F'[h]._metadata_length = alone.w.f._metadata_length
              /\ IndexView(F'[h]._metadata) = IndexView(alone.w.f._metadata)
              /\ File_num_items([disk |-> disk', fds |-> fds', f |-> F'[h]]).n
                    = alone.w.f._metadata.length]_vars

\* the 22 bytes of a provisional header: index_offset and index_length are 0
ProvisionalHeader ==
  MAGIC_BYTES \o _version_to_bytes(version)
    \o IntToBytes(0, NUM_BYTES_METADATA_OFFSET) \o IntToBytes(0, NUM_BYTES_METADATA_LENGTH)

\* the bytes of the file where the header keeps index_offset and index_length
HeaderIndexFields(bytes) ==
  ReadAt(bytes, NUM_BYTES_MAGIC_BYTES + NUM_BYTES_VERSION,
         NUM_BYTES_METADATA_OFFSET + NUM_BYTES_METADATA_LENGTH)

\* C15: after every successful open for write, by the constructor or by open() on a
\* handle that exists, the Index is empty (num_items() is 0, no key set), the write
\* cursor is just past the header and the file holds a provisional header with
\* index_offset and index_length 0; the two fields stay 0 on disk over every step
\* that is not a close or an open of the handle.
C15_OpenWriteStartsEmpty ==
  [][\A h \in Handles :
       /\ ((Constructed(h, "w") \/ Reopened(h, "w")) /\ last'.err = "") =>
             /\ F'[h]._metadata = MetadataWriter
             /\ File_num_items([disk |-> disk', fds |-> fds', f |-> F'[h]]).n = 0
             /\ F'[h]._item_offset = Len(ProvisionalHeader)
             /\ disk'.bytes = ProvisionalHeader
       /\ (IsOpenWriter(h) /\ last'.h = h /\ last'.op \in {"add_item", "num_items", "get_array"}
           /\ HeaderIndexFields(disk.bytes) = HeaderIndexFields(ProvisionalHeader)) =>
             HeaderIndexFields(disk'.bytes) = HeaderIndexFields(ProvisionalHeader)]_vars

\* C16: close() on a handle that is closed already raises nothing, leaves the handle
\* closed and changes neither the file's bytes nor any file object nor the handle:
\* the bytes after the second close() are the bytes after the first, and the
\* trailer of a write handle is written once.
C16_DoubleCloseNoOp ==
  [][\A h \in Handles :
       (IsClosed(h) /\ last'.h = h /\ last'.op = "close" /\ last' # last) =>
          /\ last'.err = ""
          /\ disk' = disk
          /\ fds' = fds
          /\ F' = F
          /\ IsClosed(h)']_vars

\* a write handle with items is closed a second time: the call began with the file
\* position past the trailer the first close() wrote
C16_Witness ==
  /\ last.h = Writer /\ last.op = "close" /\ last.err = ""
  /\ IsClosed(Writer) /\ Len(Accepted) >= 1
  /\ F[Writer]._metadata_length > 0
  /\ last.pos0 = F[Writer]._metadata_offset + F[Writer]._metadata_length
  /\ Len(disk.bytes) = last.pos0

\* the index_offset and index_length a reader would decode from a file's header
HeaderIndexOffset(bytes) ==
  BytesToInt(ReadAt(bytes, NUM_BYTES_MAGIC_BYTES + NUM_BYTES_VERSION,
                    NUM_BYTES_METADATA_OFFSET), NUM_BYTES_METADATA_OFFSET)
HeaderIndexLength(bytes) ==
  BytesToInt(ReadAt(bytes, NUM_BYTES_MAGIC_BYTES + NUM_BYTES_VERSION + NUM_BYTES_METADATA_OFFSET,
                    NUM_BYTES_METADATA_LENGTH), NUM_BYTES_METADATA_LENGTH)

\* the header of a file names a trailer the file holds in full
TrailerPresent(bytes) ==
  /\ Len(bytes) >= Len(ProvisionalHeader)
  /\ HeaderIndexOffset(bytes) + HeaderIndexLength(bytes) <= Len(bytes)

\* C17: when the write of the serialized Index fails during close() of a write
\* handle, close() raises that failure, and the header on disk does not name an
\* index_offset and index_length whose trailer is missing or short.
C17_FailedTrailerWrite ==
  \A h \in Handles :
    (last.h = h /\ last.op = "close" /\ last.err = "OSError") =>
       TrailerPresent(disk.bytes)

\* what num_items() on a handle would return in the current state
NumItemsOf(h) == File_num_items(World(h)).n

FirstPayloadOffset(md) ==
  LET offsets == {md.data[md.metadata[x].offset + 1][y] :
                    x \in DOMAIN md.metadata, y \in 1..md.length}
  IN  CHOOSE o \in offsets : \A p \in offsets : o <= p

C20_ScopedAcquisition ==
  \A h \in Handles :
    (last.h = h /\ last.op = "__exit__") =>
       /\ IsClosed(h)
       /\ F[h]._mode = "w" =>
             /\ TrailerPresent(disk.bytes)
             /\ HeaderIndexOffset(disk.bytes) = F[h]._item_offset
             /\ bson_loads(ReadAt(disk.bytes, HeaderIndexOffset(disk.bytes),
                                  HeaderIndexLength(disk.bytes))).err = ""
       /\ last.err = last.key

\* C21: every File(path, mode) and every open(path, mode) with a mode other than
\* 'r' and 'w' fails with InvalidModeError.
C21_InvalidMode ==
  (last.op \in {"__init__", "open"} /\ last.key \notin {"r", "w"}) =>
     last.err = "InvalidModeError"

\* the payload bytes add_item writes for an item, and for a sequence of calls
RECURSIVE PayloadSize(_)
PayloadSize(data) ==
  IF data = <<>> THEN 0
  ELSE Len(serialize_array(Head(data).value).bytes) + PayloadSize(Tail(data))
PayloadOf(data) == Flatten([x \in DOMAIN data |-> serialize_array(data[x].value).bytes])
RECURSIVE PayloadSizes(_)
PayloadSizes(calls) ==
  IF calls = <<>> THEN 0 ELSE PayloadSize(Head(calls).data) + PayloadSizes(Tail(calls))

\* C22: after close() of a write handle with accepted items the header's
\* index_offset is the write cursor, which is 22 plus the sizes of all payloads of
\* the accepted items; its index_length is the length of the serialized Index; the
\* bytes of the file from index_offset on, index_length of them, are the serialized
\* Index and end the file; the payloads of every accepted item lie one after the
\* other from byte 22 and end at or before index_offset.
C22_FlushResult ==
  (IsClosed(Writer) /\ F[Writer]._mode = "w" /\ Accepted # <<>>) =>
     LET serialized == MetadataWriter_tobytes(Index).bytes
         index_offset == HeaderIndexOffset(disk.bytes)
         index_length == HeaderIndexLength(disk.bytes)
     IN  /\ index_offset = F[Writer]._item_offset
         /\ index_offset = Len(ProvisionalHeader) + PayloadSizes(Accepted)
         /\ index_length = Len(serialized)
         /\ ReadAt(disk.bytes, index_offset, index_length) = serialized
         /\ Len(disk.bytes) = index_offset + index_length
         /\ \A k \in DOMAIN Accepted :
               LET start == Len(ProvisionalHeader) + PayloadSizes(SubSeq(Accepted, 1, k - 1))
                   size == PayloadSize(Accepted[k].data)
               IN  /\ start + size <= index_offset
                   /\ ReadAt(disk.bytes, start, size) = PayloadOf(Accepted[k].data)

\* the writer was closed after two accepted items and a call refused after one of
\* its payloads had been written
C22_Witness ==
  /\ IsClosed(Writer) /\ last.h = Writer /\ last.op = "close" /\ last.err = ""
  /\ Len(Accepted) >= 2
  /\ \E x \in DOMAIN log : log[x].err = "TypeMismatchError"
  /\ HeaderIndexOffset(disk.bytes) = F[Writer]._item_offset

\* C23: when some add_item calls on the write handle failed, a reader of the closed
\* file sees the calls that returned and nothing else: the open for read succeeds,
\* num_items() is the number of calls that returned, and get_array(i, key) returns
\* the array passed for key in the i-th call that returned.
C23_RejectedInvisible ==
  (IsClosed(Writer) /\ F[Writer]._mode = "w" /\ ~AllAccepted /\ last.h \in Readers) =>
     /\ last.op = "__init__" => last.err = ""
     /\ (last.op = "num_items" /\ F[last.h].made) =>
           last.err = "" /\ last.n = Len(Accepted)
     /\ (LastRead("get_array") /\ last.item \in 0..(Len(Accepted) - 1)
         /\ last.key \in Keys(FirstData)) =>
           /\ last.err = ""
           /\ last.val = <<[key |-> last.key,
                            value |-> AsRead(ValueOf(Accepted[last.item + 1].data, last.key))]>>

\* the payload bytes add_item has written for an item when it returns or raises:
\* those of the entries before the first one it cannot serialize
RECURSIVE WrittenSize(_)
WrittenSize(data) ==
  IF data = <<>> THEN 0
  ELSE IF Head(data).value.pytype # "ndarray" \/ serialize_array(Head(data).value).err # ""
       THEN 0
       ELSE Len(serialize_array(Head(data).value).bytes) + WrittenSize(Tail(data))

\* C24: an add_item call that fails after k of its payloads were written leaves the
\* write cursor at its value before the call plus the length of those k payloads,
\* and an accepted call places its item at the end of everything written so far.
C24_FailurePolicy ==
  [][(IsOpenWriter(Writer) /\ last'.h = Writer /\ last'.op = "add_item"
      /\ Len(log') = Len(log) + 1) =>
        /\ last'.err # "" =>
              F'[Writer]._item_offset
                = F[Writer]._item_offset + WrittenSize(log'[Len(log')].data)
        /\ last'.err = "" => F[Writer]._item_offset = Len(disk.bytes)]_vars

\* C25: close() of a write handle on which no add_item ever returned completes
\* without error and closes the handle, and the file it leaves can be opened for
\* read, with num_items() = 0.
C25_EmptyContainer ==
  (last.h = Writer /\ last.op = "close" /\ F[Writer]._mode = "w" /\ Accepted = <<>>) =>
     LET r == File___init__([disk |-> disk, fds |-> <<>>, f |-> NewFile], Path, "r")
     IN  /\ last.err = ""
         /\ IsClosed(Writer)
         /\ TrailerPresent(disk.bytes)
         /\ r.err = ""
         /\ File_num_items(r.w).n = 0

\* the lengths of the columns a trailer decodes to
ColumnLengths(doc) ==
  {Len(doc[x].offset) \div NUM_BYTES_METADATA_OFFSET : x \in DOMAIN doc}
    \cup {Len(doc[x].size) \div NUM_BYTES_METADATA_LENGTH : x \in DOMAIN doc}

PayloadStart(k) == Len(ProvisionalHeader) + PayloadSizes(SubSeq(Accepted, 1, k - 1))

\* C27: in every state of the write handle, whatever calls came after (accepted
\* ones, refused ones that wrote part of their payloads, the header rewrite and the
\* trailer write of close), the bytes of every accepted item's payloads are the
\* bytes written for it, and bytes 0 to 21 are a header: the tag, the version and
\* index fields that are 0 or, after close, those of the handle.
C27_PayloadsKept ==
  (F[Writer].made /\ F[Writer]._mode = "w") =>
     /\ \A k \in DOMAIN Accepted :
           ReadAt(disk.bytes, PayloadStart(k), PayloadSize(Accepted[k].data))
             = PayloadOf(Accepted[k].data)
     /\ ReadAt(disk.bytes, 0, NUM_BYTES_MAGIC_BYTES + NUM_BYTES_VERSION)
           = MAGIC_BYTES \o _version_to_bytes(version)
     /\ \/ HeaderIndexFields(disk.bytes) = HeaderIndexFields(ProvisionalHeader)
        \/ /\ IsClosed(Writer)
           /\ HeaderIndexOffset(disk.bytes) = F[Writer]._metadata_offset
           /\ HeaderIndexLength(disk.bytes) = F[Writer]._metadata_length

\* two items were accepted, a call after the first was refused with payload bytes
\* written, and close has rewritten the header and written the trailer
C27_Witness ==
  /\ IsClosed(Writer) /\ Len(Accepted) >= 2 /\ log[1].err = ""
  /\ \E x \in DOMAIN log : log[x].err # "" /\ WrittenSize(log[x].data) > 0
  /\ HeaderIndexOffset(disk.bytes) = PayloadStart(Len(Accepted) + 1)
  /\ PayloadOf(Accepted[1].data) # <<>>

----------------------------------------------------------------------------
(* serialization.py on its own: one array encoded, then decoded under a tag *)

SeqsUpTo(S, n) == UNION {[1..k -> S] : k \in 0..n}

\* arrays handed to serialize_array: one-byte and two-byte integers at the ends of
\* their ranges, text of one-byte and two-byte code points, and a complex array
CodecArrays ==
  {NdArray("int8", e) : e \in SeqsUpTo({-128, -1, 5, 127}, MaxElems)}
    \cup {NdArray("int16", e) : e \in SeqsUpTo({-32768, -2, 300}, MaxElems)}
    \cup {StrArray(ss) : ss \in SeqsUpTo(SeqsUpTo({104, 233}, 2), MaxElems)}
    \cup {NdArray("complex64", <<>>)}

\* tags handed to deserialize_array: three names of the table and two that are not
CodecTags == {"int8", "int16", "str", "complex64", "unicode"}

\* The statement of line 50 as written: iterating a dict yields its keys, and the
\* target `key, value` unpacks each of them; a key of dtypes is an int, which
\* cannot be unpacked, so the statement raises unless dtypes is empty.
dtype_names_statement ==
  IF DOMAIN dtypes = {} THEN [err |-> "", names |-> {}]
  ELSE [err |-> "TypeError", names |-> {}]

InitCodec ==
  /\ disk = [exists |-> FALSE, bytes |-> <<>>]
  /\ fds = <<>>
  /\ F = [h \in Handles |-> NewFile]
  /\ pc = [h \in Handles |-> Idle]
  /\ last = NoCall
  /\ \E a \in CodecArrays : log = <<[data |-> a, err |-> ""]>>

\* the module-level statement that builds dtype_names
LoadTable ==
  /\ last = NoCall
  /\ last' = [NoCall EXCEPT !.op = "dtype_names", !.err = dtype_names_statement.err,
                            !.val = dtype_names_statement.names]
  /\ UNCHANGED <<disk, fds, F, pc, log>>

\* serialize_array(array), with the table of names its callers expect
SerializeArray ==
  /\ last = NoCall
  /\ LET r == serialize_array(log[1].data)
     IN  /\ last' = [NoCall EXCEPT !.op = "serialize_array", !.key = r.tag, !.err = r.err,
                                   !.val = r.bytes]
         /\ log' = Append(log, [data |-> r, err |-> r.err])
  /\ UNCHANGED <<disk, fds, F, pc>>

\* deserialize_array(array_serialized, data_type) on the bytes just serialized
DeserializeArray(data_type) ==
  /\ last.op = "serialize_array" /\ last.err = ""
  /\ LET r == deserialize_array(log[2].data.bytes, data_type)
     IN  /\ last' = [NoCall EXCEPT !.op = "deserialize_array", !.key = data_type,
                                   !.err = r.err, !.val = r.array]
         /\ log' = Append(log, [data |-> r, err |-> r.err])
  /\ UNCHANGED <<disk, fds, F, pc>>

NextCodec ==
  \/ LoadTable
  \/ SerializeArray
  \/ \E data_type \in CodecTags : DeserializeArray(data_type)

SpecCodec == InitCodec /\ [][NextCodec]_vars

C29_SupportedTypeTable ==
  /\ last.op = "dtype_names" =>
        last.err = "" /\ last.val = {dtypes[n] : n \in DOMAIN dtypes}
  /\ last.op = "serialize_array" =>
        IF dtype_num[log[1].data.dtype] \in DOMAIN dtypes
        THEN last.err = "" /\ deserialize_array(last.val, last.key).err = ""
        ELSE last.err = "UnsupportedTypeError" /\ last.val = <<>>
  /\ (last.op = "deserialize_array" /\ last.key \notin {dtypes[n] : n \in DOMAIN dtypes}) =>
        last.err = "UnsupportedTypeError" /\ last.val = NoArray

\* C30: a File(path, mode) or an open(path, mode) that fails leaves the file at the
\* path as it was (not created, not truncated, no byte changed), leaves the handle
\* without an open file object, and leaves open no file object that was not open
\* before the call.
C30_FailedOpenLeavesNothing ==
  [][(last'.op \in {"__init__", "open"} /\ last'.err # "") =>
        /\ disk' = disk
        /\ F'[last'.h]._fp = 0 \/ fds'[F'[last'.h]._fp].closed
        /\ \A x \in DOMAIN fds' : x > Len(fds) => fds'[x].closed]_vars

----------------------------------------------------------------------------
(* reads at indices of either sign *)

\* a file of accepted items is written and closed, then read at item indices from
\* -MaxCalls to MaxCalls
NextSigned ==
  \/ Create
  \/ \E h \in MainHandles \cap Readers : OpenRead(h)
  \/ \E data \in {ItemAB, ItemA} :
        IsOpenWriter(Writer) /\ Len(log) < MaxLifeCalls /\ AddItem(Writer, data)
  \/ IsOpenWriter(Writer) /\ Close(Writer)
  \/ \E h \in MainHandles \cap Readers : \E item \in (0 - MaxCalls)..MaxCalls :
        IsOpenReader(h) /\ GetItem(h, item)
  \/ \E h \in MainHandles \cap Readers : \E item \in (0 - MaxCalls)..MaxCalls, key \in ReadKeys :
        IsOpenReader(h) /\ GetArray(h, item, key)

SpecSigned == Init /\ [][NextSigned]_vars

\* C31: on a read handle, get_item(i) and get_array(i, key) with i < 0 fail with
\* IndexOutOfRangeError, as they do with i at or past the number of items, and
\* return no payload.
C31_NegativeIndices ==
  ((LastRead("get_item") \/ LastRead("get_array")) /\ last.item < 0) =>
     last.err = "IndexOutOfRangeError" /\ last.val = <<>>

====
